---- MODULE Spec2Model ----
(***************************************************************************)
(* Model of the AdEx validator stack helpers and sentry channel routes     *)
(* (services/validatorWorker/lib/index.js and the two historical variants  *)
(* of routes/channel.js that the file carries).                            *)
(*                                                                         *)
(* A JavaScript object is modelled as a sequence of <<key, value>> pairs   *)
(* with pairwise distinct keys: the sequence order is the iteration order  *)
(* of Object.keys / Object.entries (insertion order).                      *)
(***************************************************************************)
EXTENDS Integers, Sequences, FiniteSets, TLC

VARIABLES
    feeBalances,   \* argument `balances` of getBalancesAfterFeesTree
    feeChannel,    \* argument `channel`: depositAmount and the two validator fees
    feeResult,     \* [state |-> "pending"], or the outcome of the call
    log,           \* the validatorMessages collection, in insertion order
    now,           \* Date.now() of the sentry process
    calls,         \* postValidatorMessages calls whose inserts are in flight
    resp,          \* the last response of postValidatorMessages
    rla,           \* the retrieveLastApproved call: position, locals, the size
                   \* of the collection at its last query and whether it grew
                   \* between the two queries
    rootIn,        \* arguments of getStateRootHash / isValidRootHash
    rootOut,       \* their results
    worker,        \* the follower's evaluation of a NewState: position and locals
    listed,        \* the last response of getValidatorMessages
    convIn,        \* argument `raw` of toBNMap / toBNStringMap
    convOut        \* the conversions called so far, each with its outcome

feeVars == <<feeBalances, feeChannel, feeResult>>
storeVars == <<log, now, calls, resp>>
rootVars == <<rootIn, rootOut>>
convVars == <<convIn, convOut>>
vars == <<feeVars, storeVars, rla, rootVars, worker, listed, convVars>>

----------------------------------------------------------------------------
(* Bounds of the model *)

MaxPublishers == 2
MaxBalance == 1
MaxDeposit == 1
MaxFee == 1
MaxLog == 3
MaxLogAll == 2
MSGS_FIND_LIMIT == 2
MaxTime == 1
MaxDigits == 2
MaxAmount == 11

----------------------------------------------------------------------------
(* JavaScript objects *)

Range(s) == {s[i] : i \in DOMAIN s}

\* Object.keys(o)
ObjKeys(o) == [i \in DOMAIN o |-> o[i][1]]

ObjHas(o, k) == \E i \in DOMAIN o : o[i][1] = k

\* o[k] for a key the object has
ObjGet(o, k) == o[CHOOSE i \in DOMAIN o : o[i][1] = k][2]

\* o[k] = v : an existing key keeps its position, a new key goes last
ObjSet(o, k, v) ==
    IF ObjHas(o, k)
    THEN [i \in DOMAIN o |-> IF o[i][1] = k THEN <<k, v>> ELSE o[i]]
    ELSE Append(o, <<k, v>>)

\* the objects with at most n keys drawn from keys, values drawn from vals
ObjectsOver(keys, vals, n) ==
    {o \in UNION {[1..m -> keys \X vals] : m \in 0..n} :
        \A i, j \in DOMAIN o : i # j => o[i][1] # o[j][1]}

RECURSIVE SumValues(_)
SumValues(o) == IF o = <<>> THEN 0 ELSE o[1][2] + SumValues(Tail(o))

----------------------------------------------------------------------------
(* bn.js arithmetic: arbitrary precision, div truncates toward zero *)

Abs(x) == IF x < 0 THEN -x ELSE x

BNdiv(a, b) ==
    IF (a < 0) = (b < 0) THEN Abs(a) \div Abs(b) ELSE -(Abs(a) \div Abs(b))

----------------------------------------------------------------------------
(* The message store: the validatorMessages collection and its routes *)

LEADER == "leader"
FOLLOWER == "follower"

\* req.channel, as channelLoad puts it on the request
Channel(id) == [id |-> id, validators |-> <<[id |-> LEADER], [id |-> FOLLOWER]>>]

ChannelIds == {"c1"}
Uids == {LEADER, FOLLOWER, "other"}
StateRoots == {"r1", "r2"}
MsgTypes == {"NewState", "ApproveState"}
Msgs == [type : MsgTypes, stateRoot : StateRoots]

\* the request bodies tried against the store: batches of any length of
\* messages for one state root
StoreBatches ==
    UNION {[1..n -> {m \in Msgs : m.stateRoot = "r1"}] : n \in 0..MaxLog}

\* the request bodies tried against the checkpoint resolver: one message
CheckpointBatches == [1..1 -> Msgs]
CheckpointUids == {LEADER, FOLLOWER}

\* documents stored or about to be stored
RECURSIVE PendingCount(_)
PendingCount(cs) ==
    IF cs = <<>> THEN 0
    ELSE Cardinality({i \in DOMAIN cs[1].stored : cs[1].stored[i] = 0})
            + PendingCount(Tail(cs))

InFlight == Len(log) + PendingCount(calls)

\* the model stops issuing inserts once cap documents are stored or on their way
Room(cap, n) == InFlight + n <= cap

\* no fee computation is in progress
FeesIdle ==
    /\ feeBalances = <<>>
    /\ feeChannel = [depositAmount |-> 1, validators |-> <<[fee |-> 0], [fee |-> 0]>>]
    /\ feeResult = [state |-> "idle"]

RootIdle ==
    /\ rootIn = [state |-> "idle"]
    /\ rootOut = [state |-> "idle"]

WorkerIdle == worker = [pc |-> "idle"]

\* no balance conversion is in progress
ConvIdle ==
    /\ convIn = [kind |-> "none"]
    /\ convOut = <<>>

StoreIdle ==
    /\ log = <<>>
    /\ now = 0
    /\ calls = <<>>
    /\ resp = [status |-> 0]
    /\ rla = [pc |-> "idle"]
    /\ listed = [state |-> "idle"]

\* mutant: an upsert keyed by channel and sender, which replaces the sender's
\* earlier message
insertOne_Upsert(col, doc) ==
    IF \E i \in DOMAIN col : col[i].channelId = doc.channelId /\ col[i].from = doc.from
    THEN [i \in DOMAIN col |->
            IF col[i].channelId = doc.channelId /\ col[i].from = doc.from
            THEN doc ELSE col[i]]
    ELSE Append(col, doc)

\* validatorMsgCol.insertOne(doc): the collection grows by the document
insertOne(col, doc) == Append(col, doc)

\* mutant: every message of the batch gets the start time
toInsertDoc_NoOffset(call, idx) ==
    [channelId |-> call.channelId,
     from |-> call.uid,
     msg |-> call.messages[idx + 1],
     received |-> call.startTime]

\* the document postValidatorMessages builds for messages[idx] (idx from 0)
toInsertDoc(call, idx) ==
    [channelId |-> call.channelId,
     from |-> call.uid,
     msg |-> call.messages[idx + 1],
     received |-> call.startTime + idx]

RemoveAt(s, k) == [i \in 1..(Len(s) - 1) |-> IF i < k THEN s[i] ELSE s[i + 1]]

\* mutant: the handler without the check of the submitter
postValidatorMessages_NoValidatorCheck(uid, channelId, messages) ==
    /\ LET call == [uid |-> uid, channelId |-> channelId,
                    messages |-> messages, startTime |-> now,
                    stored |-> [i \in 0..(Len(messages) - 1) |-> 0]]
       IN  IF messages = <<>>
           THEN /\ resp' = [status |-> 200]
                /\ UNCHANGED <<log, now, calls>>
           ELSE /\ calls' = Append(calls, call)
                /\ UNCHANGED <<log, now, resp>>
    /\ UNCHANGED <<feeVars, rla, rootVars, worker, listed, convVars>>

\* postValidatorMessages up to the return of messages.map: the 401 check, the
\* start time and one insertOne issued per message.  A call keeps, per index,
\* the position its insertOne resolved with (0 while it is pending).
postValidatorMessages(uid, channelId, messages) ==
    /\ LET call == [uid |-> uid, channelId |-> channelId,
                    messages |-> messages, startTime |-> now,
                    stored |-> [i \in 0..(Len(messages) - 1) |-> 0]]
       IN  IF ~\E i \in {1, 2} : Channel(channelId).validators[i].id = uid
           THEN /\ resp' = [status |-> 401]
                /\ UNCHANGED <<log, now, calls>>
           ELSE IF messages = <<>>
           THEN /\ resp' = [status |-> 200]
                /\ UNCHANGED <<log, now, calls>>
           ELSE /\ calls' = Append(calls, call)
                /\ UNCHANGED <<log, now, resp>>
    /\ UNCHANGED <<feeVars, rla, rootVars, worker, listed, convVars>>

\* authRequired: a request without a session is answered 401, any other goes
\* on to the next handler.  A session is given by its uid.
NoSession == "no session"

authRequired(session) == session # NoSession

\* POST /:id/validator-messages: authRequired, channelLoad, postValidatorMessages
postValidatorMessagesRoute(session, channelId, messages) ==
    IF authRequired(session)
    THEN postValidatorMessages(session, channelId, messages)
    ELSE /\ resp' = [status |-> 401]
         /\ UNCHANGED <<log, now, calls, feeVars, rla, rootVars, worker, listed,
                        convVars>>

\* one insertOne of the k-th call in flight takes effect; Promise.all resolves
\* with the last one and the handler answers { success: true }
InsertCompletes(k, idx) ==
    /\ k \in DOMAIN calls
    /\ idx \in DOMAIN calls[k].stored
    /\ calls[k].stored[idx] = 0
    /\ log' = insertOne(log, toInsertDoc(calls[k], idx))
    /\ LET stored == [calls[k].stored EXCEPT ![idx] = Len(log) + 1]
       IN  IF \A i \in DOMAIN stored : stored[i] # 0
           THEN /\ calls' = RemoveAt(calls, k)
                /\ resp' = [status |-> 200]
           ELSE /\ calls' = [calls EXCEPT ![k].stored = stored]
                /\ UNCHANGED resp
    /\ UNCHANGED <<now, feeVars, rla, rootVars, worker, listed, convVars>>

\* the clock of the process moves on by a millisecond
AdvanceClock ==
    /\ now < MaxTime
    /\ now' = now + 1
    /\ UNCHANGED <<log, calls, resp, feeVars, rla, rootVars, worker, listed, convVars>>

\* VALIDATOR_MSGS_PROJ = { _id: 0, channelId: 0 }
VALIDATOR_MSGS_PROJ(doc) ==
    [from |-> doc.from, msg |-> doc.msg, received |-> doc.received]

\* mutant: the ApproveState query without the `from` condition
FindApproveState_AnySender(col, channel) ==
    {i \in DOMAIN col :
        /\ col[i].channelId = channel.id
        /\ col[i].msg.type = "ApproveState"}

\* find(query): the positions of the documents that match
FindApproveState(col, channel) ==
    {i \in DOMAIN col :
        /\ col[i].channelId = channel.id
        /\ col[i].from = channel.validators[2].id
        /\ col[i].msg.type = "ApproveState"}

\* mutant: the NewState query without the stateRoot condition
FindNewState_AnyRoot(col, channel, stateRoot) ==
    {i \in DOMAIN col :
        /\ col[i].channelId = channel.id
        /\ col[i].from = channel.validators[1].id
        /\ col[i].msg.type = "NewState"}

FindNewState(col, channel, stateRoot) ==
    {i \in DOMAIN col :
        /\ col[i].channelId = channel.id
        /\ col[i].from = channel.validators[1].id
        /\ col[i].msg.type = "NewState"
        /\ col[i].msg.stateRoot = stateRoot}

\* mutant: sort({ received: 1 }), the oldest first
SortReceivedDescFirst_Ascending(col, found) ==
    {i \in found : \A j \in found : col[j].received >= col[i].received}

\* sort({ received: -1 }).limit(1): the positions that may come first
SortReceivedDescFirst(col, found) ==
    {i \in found : \A j \in found : col[j].received <= col[i].received}

\* the orders sort({ received: -1 }) may give the documents found
SortReceivedDesc(col, found) ==
    {order \in [1..Cardinality(found) -> found] :
        /\ \A i, j \in DOMAIN order : i # j => order[i] # order[j]
        /\ \A i, j \in DOMAIN order :
                i < j => col[order[i]].received >= col[order[j]].received}

\* cursor.limit(n): 0 is no limit, a negative n limits to -n
CursorLimit(order, n) ==
    IF n = 0 THEN order
    ELSE LET m == IF n < 0 THEN -n ELSE n
         IN  SubSeq(order, 1, IF m < Len(order) THEN m ELSE Len(order))

Min(a, b) == IF a < b THEN a ELSE b

NoParam == "undefined"

\* getValidatorMessages: uid and type are optional route parameters, limit an
\* optional query parameter.  type is given as the list type.split('+') makes
\* of it and limit as the number its string denotes, each wrapped in a
\* sequence that is empty when the parameter is absent.  The response is kept
\* with the positions in the collection of the documents it was made of.
getValidatorMessages(id, uid, type, limit) ==
    /\ LET found == {i \in DOMAIN log :
                        /\ log[i].channelId = id
                        /\ (uid # NoParam => log[i].from = uid)
                        /\ (type # <<>> => log[i].msg.type \in Range(type[1]))}
           n == IF limit # <<>>
                THEN Min(MSGS_FIND_LIMIT, limit[1])
                ELSE MSGS_FIND_LIMIT
       IN  \E order \in SortReceivedDesc(log, found) :
                listed' = [state |-> "sent",
                           query |-> [id |-> id, uid |-> uid, type |-> type,
                                      limit |-> limit],
                           positions |-> CursorLimit(order, n),
                           validatorMessages |->
                                [i \in DOMAIN CursorLimit(order, n) |->
                                    VALIDATOR_MSGS_PROJ(log[CursorLimit(order, n)[i]])]]
    /\ UNCHANGED <<feeVars, storeVars, rla, rootVars, worker, convVars>>

\* retrieveLastApproved up to its first await: the ApproveState query
RlaQueryApproveState(channelId) ==
    /\ rla.pc = "idle"
    /\ LET channel == Channel(channelId)
           found == FindApproveState(log, channel)
       IN  IF found = {}
           THEN rla' = [pc |-> "done", channel |-> channel, len |-> Len(log),
                        grew |-> FALSE, result |-> [kind |-> "null"]]
           ELSE \E i \in SortReceivedDescFirst(log, found) :
                    rla' = [pc |-> "findNewState", channel |-> channel,
                            len |-> Len(log),
                            approveState |-> VALIDATOR_MSGS_PROJ(log[i])]
    /\ UNCHANGED <<feeVars, storeVars, rootVars, worker, listed, convVars>>

\* retrieveLastApproved from the first await on: the NewState query, the return
RlaQueryNewState ==
    /\ rla.pc = "findNewState"
    /\ LET found == FindNewState(log, rla.channel, rla.approveState.msg.stateRoot)
       IN  IF found = {}
           THEN rla' = [pc |-> "done", channel |-> rla.channel, len |-> Len(log),
                        grew |-> Len(log) # rla.len,
                        result |-> [kind |-> "null"]]
           ELSE \E i \in found :
                    rla' = [pc |-> "done", channel |-> rla.channel,
                            len |-> Len(log), grew |-> Len(log) # rla.len,
                            result |-> [kind |-> "pair",
                                        newState |-> VALIDATOR_MSGS_PROJ(log[i]),
                                        approveState |-> rla.approveState]]
    /\ UNCHANGED <<feeVars, storeVars, rootVars, worker, listed, convVars>>

InitStore ==
    /\ FeesIdle
    /\ StoreIdle
    /\ RootIdle
    /\ WorkerIdle
    /\ ConvIdle

NextStore ==
    \/ \E session \in Uids \cup {NoSession}, id \in ChannelIds,
           messages \in StoreBatches :
            /\ Room(MaxLog, Len(messages))
            /\ postValidatorMessagesRoute(session, id, messages)
    \/ \E k \in 1..MaxLog, idx \in 0..(MaxLog - 1) : InsertCompletes(k, idx)
    \/ AdvanceClock

SpecStore == InitStore /\ [][NextStore]_vars

NextCheckpoint ==
    \/ \E uid \in CheckpointUids, id \in ChannelIds, messages \in CheckpointBatches :
            Room(MaxLog, Len(messages)) /\ postValidatorMessages(uid, id, messages)
    \/ \E k \in 1..MaxLog, idx \in 0..(MaxLog - 1) : InsertCompletes(k, idx)
    \/ AdvanceClock
    \/ \E id \in ChannelIds : RlaQueryApproveState(id)
    \/ RlaQueryNewState

SpecCheckpoint == InitStore /\ [][NextCheckpoint]_vars

----------------------------------------------------------------------------
(* Fee distribution *)

Accounts == {"A", "B", "validator"}
BalanceValues == (0..MaxBalance) \cup {100, 200}
DepositValues == (0..MaxDeposit) \cup {1000}
FeeValues == (0..MaxFee) \cup {5, 10}

getValidatorFee(publisherBalance, totalValidatorFee, depositAmount) ==
    LET numerator == depositAmount - totalValidatorFee
    IN  BNdiv(publisherBalance * numerator, depositAmount)

\* The forEach body, folded over Object.keys(balances) from index i on.
\* st = [threw, currentValidatorFee, balancesAfterFees]
RECURSIVE feesForEach(_, _, _, _, _)
feesForEach(balances, i, totalValidatorFee, depositAmount, st) ==
    IF st.threw \/ i > Len(balances) THEN st
    ELSE IF depositAmount = 0
    THEN [st EXCEPT !.threw = TRUE]
    ELSE
        LET publisher == ObjKeys(balances)[i]
            raw == ObjGet(balances, publisher)
            validatorFee == getValidatorFee(raw, totalValidatorFee, depositAmount)
            publisherBalance == raw - validatorFee
        IN  IF publisherBalance < 0
            THEN [st EXCEPT !.threw = TRUE]
            ELSE feesForEach(balances, i + 1, totalValidatorFee, depositAmount,
                    [threw |-> FALSE,
                     currentValidatorFee |-> st.currentValidatorFee + validatorFee,
                     balancesAfterFees |->
                        ObjSet(st.balancesAfterFees, publisher, publisherBalance)])

\* Outcome: [state |-> "threw"] or [state |-> "returned", value |-> object]
getBalancesAfterFeesTree(balances, channel) ==
    LET depositAmount == channel.depositAmount
        leaderFee == channel.validators[1].fee
        followerFee == channel.validators[2].fee
        totalValidatorFee == leaderFee + followerFee
        st == feesForEach(balances, 1, totalValidatorFee, depositAmount,
                [threw |-> FALSE, currentValidatorFee |-> 0,
                 balancesAfterFees |-> <<>>])
    IN  IF st.threw THEN [state |-> "threw"]
        ELSE [state |-> "returned",
              value |-> ObjSet(st.balancesAfterFees, "validator",
                               st.currentValidatorFee)]

FeeChannels ==
    {[depositAmount |-> d, validators |-> <<[fee |-> lf], [fee |-> ff]>>] :
        d \in DepositValues, lf \in FeeValues, ff \in FeeValues}

InitFees ==
    /\ StoreIdle
    /\ RootIdle
    /\ WorkerIdle
    /\ ConvIdle
    /\ feeBalances \in ObjectsOver(Accounts, BalanceValues, MaxPublishers)
    /\ feeChannel \in FeeChannels
    /\ feeResult = [state |-> "pending"]

CallGetBalancesAfterFeesTree ==
    /\ feeResult = [state |-> "pending"]
    /\ feeResult' = getBalancesAfterFeesTree(feeBalances, feeChannel)
    /\ UNCHANGED <<feeBalances, feeChannel, storeVars, rla, rootVars, worker, listed, convVars>>

NextFees == CallGetBalancesAfterFeesTree

SpecFees == InitFees /\ [][NextFees]_vars

----------------------------------------------------------------------------
(* State root *)

\* The adapter (adapters/, outside this file) is modelled as the ideal one the
\* comment on line 5 describes: injective leaves, a tree that deduplicates and
\* sorts its elements, an injective commitment.  Digests are kept as terms.
AccountOrder == <<"A", "B", "validator">>

AccountRank(acc) == CHOOSE i \in DOMAIN AccountOrder : AccountOrder[i] = acc

\* adapter.getBalanceLeaf(acc, bal)
getBalanceLeaf(acc, bal) == [acc |-> acc, bal |-> bal]

\* the byte order of two leaves
LeafBefore(x, y) ==
    \/ AccountRank(x.acc) < AccountRank(y.acc)
    \/ AccountRank(x.acc) = AccountRank(y.acc) /\ x.bal < y.bal

RECURSIVE SortLeaves(_)
SortLeaves(S) ==
    IF S = {} THEN <<>>
    ELSE LET first == CHOOSE x \in S : \A y \in S : x = y \/ LeafBefore(x, y)
         IN  <<first>> \o SortLeaves(S \ {first})

\* new adapter.MerkleTree(elems).getRoot()
MerkleTreeRoot(elems) == [root |-> SortLeaves(Range(elems))]

\* adapter.getSignableStateRoot(Buffer.from(channel.id), balanceRoot)
getSignableStateRoot(idBytes, balanceRoot) ==
    [keccak256 |-> <<idBytes, balanceRoot>>]

\* buffer.toString('hex')
toHexString(bytes) == [hex |-> bytes]

\* mutant: the leaves are hashed in the order Object.keys gives them
getStateRootHash_Unsorted(channel, balances) ==
    LET keys == ObjKeys(balances)
        elems == [i \in DOMAIN keys |->
                    getBalanceLeaf(keys[i], ObjGet(balances, keys[i]))]
    IN  toHexString(getSignableStateRoot(channel.id, [root |-> elems]))

\* mutant: the leaf is built from the account alone
getStateRootHash_KeysOnly(channel, balances) ==
    LET keys == ObjKeys(balances)
        elems == [i \in DOMAIN keys |-> getBalanceLeaf(keys[i], 0)]
    IN  toHexString(getSignableStateRoot(channel.id, MerkleTreeRoot(elems)))

getStateRootHash(channel, balances) ==
    LET keys == ObjKeys(balances)
        elems == [i \in DOMAIN keys |->
                    getBalanceLeaf(keys[i], ObjGet(balances, keys[i]))]
        balanceRoot == MerkleTreeRoot(elems)
    IN  toHexString(getSignableStateRoot(channel.id, balanceRoot))

isValidRootHash(leaderRootHash, channel, balancesAfterFees) ==
    getStateRootHash(channel, balancesAfterFees) = leaderRootHash

\* a well-formed root that commits to none of the channels modelled
MadeUpRoot == toHexString(getSignableStateRoot("none", MerkleTreeRoot(<<>>)))

RootAmounts == 0..MaxBalance
RootChannelIds == {"c1", "c2"}
RootObjects == ObjectsOver(Accounts, RootAmounts, MaxPublishers)

\* the leader commits to `balances` (or sends a root of its own making); the
\* follower checks the claimed root against `other`
InitRoot ==
    /\ FeesIdle
    /\ StoreIdle
    /\ WorkerIdle
    /\ ConvIdle
    /\ rootIn \in [state : {"ready"}, channelId : RootChannelIds,
                   balances : RootObjects, other : RootObjects,
                   claim : {"computed", "made up"}]
    /\ rootOut = [state |-> "idle"]

\* getStateRootHash on the follower's mapping, isValidRootHash on the claim
CallIsValidRootHash ==
    /\ rootIn.state = "ready"
    /\ rootOut.state = "idle"
    /\ LET channel == Channel(rootIn.channelId)
           claimed == IF rootIn.claim = "computed"
                      THEN getStateRootHash(channel, rootIn.balances)
                      ELSE MadeUpRoot
       IN  rootOut' = [state |-> "done",
                       claimed |-> claimed,
                       recomputed |-> getStateRootHash(channel, rootIn.other),
                       valid |-> isValidRootHash(claimed, channel, rootIn.other)]
    /\ UNCHANGED <<rootIn, feeVars, storeVars, rla, worker, listed, convVars>>

NextRoot == CallIsValidRootHash

SpecRoot == InitRoot /\ [][NextRoot]_vars

----------------------------------------------------------------------------
(* The follower's rejection path: invalidNewState, onError *)

\* mutant: { type: 'InvalidNewState', reason, ...newMsg }, the spread last
invalidNewStateMsg_SpreadLast(newMsg, reason) ==
    [f \in DOMAIN newMsg \cup {"type", "reason"} |->
        IF f \in DOMAIN newMsg THEN newMsg[f]
        ELSE IF f = "type" THEN "InvalidNewState"
        ELSE reason]

\* { ...newMsg, type: 'InvalidNewState', reason }: the spread comes first, so
\* the two literal properties win over newMsg's own
invalidNewStateMsg(newMsg, reason) ==
    [f \in DOMAIN newMsg \cup {"type", "reason"} |->
        IF f = "type" THEN "InvalidNewState"
        ELSE IF f = "reason" THEN reason
        ELSE newMsg[f]]

\* getErrorMsg(reason, channel, prevBalancesString, newBalancesString)
getErrorMsg(type, channel, prevBalancesString, newBalancesString) ==
    <<"validatatorWorker", channel.id, type, "requested in NewState",
      "prevBalances", prevBalancesString, "newBalances", newBalancesString>>

\* messages the follower may be asked to reject: any type or none, with or
\* without a state root, a signature, balances or a reason of their own
WorkerMsgFields == {"type", "stateRoot", "signature", "balances", "reason"}

WorkerFieldValues(f) ==
    IF f = "type"
    THEN {"NewState", "ApproveState", "InvalidNewState", "Heartbeat"}
    ELSE IF f = "stateRoot" THEN {"r1"}
    ELSE IF f = "signature" THEN {"sig"}
    ELSE IF f = "balances" THEN {"balances"}
    ELSE {"own reason"}

WorkerNewMsgs ==
    UNION {{m \in [fs -> UNION {WorkerFieldValues(f) : f \in fs}] :
                \A f \in fs : m[f] \in WorkerFieldValues(f)} :
           fs \in SUBSET WorkerMsgFields}

Reasons == {"InvalidRootHash", "InvalidSignature"}

\* mutant: onError answers without calling persist
onErrorCalled_NoPersist(outcome, channelId, reason, newMsg) ==
    [pc |-> "persisted",
     outcome |-> outcome,
     channelId |-> channelId,
     newMsg |-> newMsg,
     reason |-> reason,
     errMsg |-> getErrorMsg(reason, Channel(channelId), "prev", "new"),
     sent |-> <<>>,
     appended |-> 0,
     stderr |-> <<>>,
     result |-> [kind |-> "pending"]]

\* mutant: console.error(errMsg) before the persist is awaited
onErrorCalled_LogFirst(outcome, channelId, reason, newMsg) ==
    [pc |-> "persisting",
     outcome |-> outcome,
     channelId |-> channelId,
     newMsg |-> newMsg,
     reason |-> reason,
     errMsg |-> getErrorMsg(reason, Channel(channelId), "prev", "new"),
     sent |-> <<invalidNewStateMsg(newMsg, reason)>>,
     appended |-> 0,
     stderr |-> <<getErrorMsg(reason, Channel(channelId), "prev", "new")>>,
     result |-> [kind |-> "pending"]]

\* the locals of onError once invalidNewState has called persist: the
\* diagnostic is built, persist has been called once with the rewritten message
onErrorCalled(outcome, channelId, reason, newMsg) ==
    [pc |-> "persisting",
     outcome |-> outcome,
     channelId |-> channelId,
     newMsg |-> newMsg,
     reason |-> reason,
     errMsg |-> getErrorMsg(reason, Channel(channelId), "prev", "new"),
     sent |-> <<invalidNewStateMsg(newMsg, reason)>>,
     appended |-> 0,
     stderr |-> <<>>,
     result |-> [kind |-> "pending"]]

\* onError(channel, adapter, { reason, newMsg, ... }) called on its own
onError(channelId, reason, newMsg) ==
    /\ worker.pc = "idle"
    /\ worker' = onErrorCalled("onError", channelId, reason, newMsg)
    /\ UNCHANGED <<feeVars, storeVars, rla, rootVars, listed, convVars>>

\* The follower's evaluation of a leader NewState (the tick that calls these
\* helpers is outside this file): fees, expected root, comparison; a match is
\* Approved and an ApproveState is persisted, a mismatch is Rejected through
\* onError.
followerTick(channelId, feeCfg, newMsg) ==
    /\ worker.pc = "idle"
    /\ LET channel == Channel(channelId)
           fees == getBalancesAfterFeesTree(newMsg.balances, feeCfg)
       IN  IF fees.state = "threw"
           THEN worker' = [pc |-> "done", outcome |-> "threw", channelId |-> channelId,
                           newMsg |-> newMsg, reason |-> "none",
                           errMsg |-> <<>>, sent |-> <<>>, appended |-> 0,
                           stderr |-> <<>>, result |-> [kind |-> "rejected"]]
           ELSE IF isValidRootHash(newMsg.stateRoot, channel, fees.value)
           THEN worker' = [pc |-> "persisting", outcome |-> "Approved",
                           channelId |-> channelId, newMsg |-> newMsg,
                           reason |-> "none", errMsg |-> <<>>,
                           sent |-> <<[type |-> "ApproveState",
                                       stateRoot |-> newMsg.stateRoot,
                                       signature |-> "follower sig"]>>,
                           appended |-> 0, stderr |-> <<>>,
                           result |-> [kind |-> "pending"]]
           ELSE worker' = onErrorCalled("Rejected", channelId, "InvalidRootHash", newMsg)
    /\ UNCHANGED <<feeVars, storeVars, rla, rootVars, listed, convVars>>

\* persist (propagation.js, outside this file) posts the message to the
\* follower's sentry, which stores it as the follower's, and resolves
PersistResolves ==
    /\ worker.pc = "persisting"
    /\ log' = insertOne(log, [channelId |-> worker.channelId, from |-> FOLLOWER,
                              msg |-> worker.sent[Len(worker.sent)],
                              received |-> now])
    /\ worker' = [worker EXCEPT !.pc = "persisted", !.appended = @ + 1]
    /\ UNCHANGED <<now, calls, resp, feeVars, rla, rootVars, listed, convVars>>

\* persist fails (the sentry is unreachable): the promise rejects and every
\* .then callback down the chain is skipped
PersistRejects ==
    /\ worker.pc = "persisting"
    /\ worker' = [worker EXCEPT !.pc = "done", !.result = [kind |-> "rejected"]]
    /\ UNCHANGED <<feeVars, storeVars, rla, rootVars, listed, convVars>>

\* the .then callback of onError: console.error(errMsg), { nothingNew: true }
onErrorThen ==
    /\ worker.pc = "persisted"
    /\ worker.outcome \in {"onError", "Rejected"}
    /\ worker' = [worker EXCEPT !.pc = "done",
                                !.stderr = Append(@, worker.errMsg),
                                !.result = [kind |-> "resolved", nothingNew |-> TRUE]]
    /\ UNCHANGED <<feeVars, storeVars, rla, rootVars, listed, convVars>>

\* the Approved tick ends once its ApproveState is persisted
approvedThen ==
    /\ worker.pc = "persisted"
    /\ worker.outcome = "Approved"
    /\ worker' = [worker EXCEPT !.pc = "done",
                                !.result = [kind |-> "resolved", nothingNew |-> FALSE]]
    /\ UNCHANGED <<feeVars, storeVars, rla, rootVars, listed, convVars>>

\* the leader NewStates the follower evaluates: balances with the root the
\* leader computed for them after fees, or with a root of its own making
TickChannels == {c \in FeeChannels : c.depositAmount > 0}

TickNewStates(channelId, feeCfg) ==
    UNION {{[type |-> "NewState", balances |-> b, signature |-> "leader sig",
             stateRoot |-> r] :
                r \in {MadeUpRoot,
                       getStateRootHash(Channel(channelId),
                            getBalancesAfterFeesTree(b, feeCfg).value)}} :
           b \in RootObjects}

InitWorker ==
    /\ FeesIdle
    /\ StoreIdle
    /\ RootIdle
    /\ WorkerIdle
    /\ ConvIdle

NextWorker ==
    \/ \E id \in ChannelIds, reason \in Reasons, newMsg \in WorkerNewMsgs :
            onError(id, reason, newMsg)
    \/ \E id \in ChannelIds, feeCfg \in TickChannels :
            \E newMsg \in TickNewStates(id, feeCfg) :
                followerTick(id, feeCfg, newMsg)
    \/ PersistResolves
    \/ PersistRejects
    \/ onErrorThen
    \/ approvedThen
    \/ AdvanceClock

SpecWorker == InitWorker /\ [][NextWorker]_vars

----------------------------------------------------------------------------
(* Every operation on the log together *)

\* the leader proposes a state, the follower approves it
LogPosts ==
    {<<LEADER, <<[type |-> "NewState", stateRoot |-> "r1"]>>>>,
     <<FOLLOWER, <<[type |-> "ApproveState", stateRoot |-> "r1"]>>>>}
LogRejected == {[type |-> "NewState", stateRoot |-> "r2", signature |-> "sig"]}

NextLog ==
    \/ \E post \in LogPosts, id \in ChannelIds :
            Room(MaxLogAll, Len(post[2])) /\ postValidatorMessages(post[1], id, post[2])
    \/ \E k \in 1..MaxLog, idx \in 0..(MaxLog - 1) : InsertCompletes(k, idx)
    \/ AdvanceClock
    \/ \E id \in ChannelIds : RlaQueryApproveState(id)
    \/ RlaQueryNewState
    \/ \E id \in ChannelIds : getValidatorMessages(id, NoParam, <<>>, <<>>)
    \/ \E id \in ChannelIds, newMsg \in LogRejected :
            onError(id, "InvalidRootHash", newMsg)
    \/ Room(MaxLogAll, 1) /\ PersistResolves
    \/ PersistRejects
    \/ onErrorThen

SpecLog == InitStore /\ [][NextLog]_vars

----------------------------------------------------------------------------
(* Listing the messages of a channel *)

ListChannelIds == {"c1", "c2"}

\* what is posted before the listing: one message a request
ListPosts ==
    {<<LEADER, "c1", <<[type |-> "NewState", stateRoot |-> "r1"]>>>>,
     <<FOLLOWER, "c1", <<[type |-> "ApproveState", stateRoot |-> "r1"]>>>>,
     <<LEADER, "c2", <<[type |-> "NewState", stateRoot |-> "r1"]>>>>}

\* the route parameters and the query string of the listing request
ListUids == {NoParam, LEADER}
ListTypes == {<<>>, <<<<"NewState">>>>, <<<<"NewState", "ApproveState">>>>}
ListLimits ==
    {<<>>, <<0>>, <<1>>, <<MSGS_FIND_LIMIT + 1>>, <<-(MSGS_FIND_LIMIT + 1)>>}

\* requests are posted and stored, then one listing request is answered
NextList ==
    \/ \E post \in ListPosts :
            /\ listed.state = "idle"
            /\ Room(MaxLog, 1)
            /\ postValidatorMessages(post[1], post[2], post[3])
    \/ \E k \in 1..MaxLog : listed.state = "idle" /\ InsertCompletes(k, 0)
    \/ listed.state = "idle" /\ AdvanceClock
    \/ \E id \in ListChannelIds, uid \in ListUids, type \in ListTypes,
           limit \in ListLimits :
            /\ listed.state = "idle"
            /\ calls = <<>>
            /\ getValidatorMessages(id, uid, type, limit)

SpecList == InitStore /\ [][NextList]_vars

----------------------------------------------------------------------------
(* The validating variant of postValidatorMessages (second routes file) *)

STATE_ROOT_LENGTH == 64

\* JSON values of a message's properties: a string (by its length), null, an
\* object, or no such property
JsonUndefined == [t |-> "undefined"]
JsonNull == [t |-> "null"]
JsonObject == [t |-> "object"]
JsonString(n) == [t |-> "string", length |-> n]

\* typeof(v)
JsonTypeOf(v) ==
    CASE v.t = "string" -> "string"
      [] v.t = "undefined" -> "undefined"
      [] OTHER -> "object"

\* a message of a request body that is an object
JsonMsg(type, stateRoot, signature, balances) ==
    [kind |-> "object", type |-> type, stateRoot |-> stateRoot,
     signature |-> signature, balances |-> balances]

\* the messages of the request bodies tried: null, the two well-formed ones,
\* and messages with one property missing, null or of another shape
ValidatingMsgs ==
    {[kind |-> "null"],
     JsonMsg("NewState", JsonString(STATE_ROOT_LENGTH), JsonString(1), JsonObject),
     JsonMsg("ApproveState", JsonString(STATE_ROOT_LENGTH), JsonString(1), JsonUndefined),
     JsonMsg("NewState", JsonString(STATE_ROOT_LENGTH), JsonString(1), JsonNull),
     JsonMsg("NewState", JsonString(STATE_ROOT_LENGTH), JsonString(1), JsonUndefined),
     JsonMsg("NewState", JsonString(STATE_ROOT_LENGTH - 1), JsonString(1), JsonObject),
     JsonMsg("ApproveState", JsonString(STATE_ROOT_LENGTH), JsonUndefined, JsonUndefined),
     JsonMsg("ApproveState", JsonUndefined, JsonString(1), JsonUndefined),
     JsonMsg("InvalidNewState", JsonString(STATE_ROOT_LENGTH), JsonString(1), JsonObject)}

\* req.body.messages: an array of at most MaxBatch messages, or no array
MaxBatch == 2

ValidatingBodies ==
    {[kind |-> "undefined"], [kind |-> "object"]} \cup
    {[kind |-> "array", items |-> items] :
        items \in UNION {[1..n -> ValidatingMsgs] : n \in 0..MaxBatch}}

\* isValidatorMsgValid(msg): "true", "false", or the TypeError of reading a
\* property of null
isValidatorMsgValid(msg) ==
    IF msg.kind = "null" THEN "TypeError"
    ELSE IF /\ JsonTypeOf(msg.stateRoot) = "string"
            /\ msg.stateRoot.length = STATE_ROOT_LENGTH
            /\ JsonTypeOf(msg.signature) = "string"
            /\ \/ (msg.type = "NewState" /\ JsonTypeOf(msg.balances) = "object")
               \/ msg.type = "ApproveState"
    THEN "true"
    ELSE "false"

\* messages.every(isValidatorMsgValid): stops at the first message that is
\* not valid
RECURSIVE EveryValid(_)
EveryValid(items) ==
    IF items = <<>> THEN "true"
    ELSE IF isValidatorMsgValid(Head(items)) = "true" THEN EveryValid(Tail(items))
    ELSE isValidatorMsgValid(Head(items))

\* Array.isArray(messages) && messages.every(isValidatorMsgValid)
BatchIsValid(body) ==
    IF body.kind # "array" THEN "false" ELSE EveryValid(body.items)

\* the document the validating variant inserts: no `received`
toInsertDocValidating(call, idx) ==
    [channelId |-> call.channelId,
     from |-> call.uid,
     msg |-> call.messages[idx + 1]]

\* the handler up to the return of messages.map; an exception thrown by the
\* handler is answered 500 by the framework
postValidatorMessagesValidating(uid, channelId, body) ==
    /\ LET request == [uid |-> uid, channelId |-> channelId, body |-> body]
           call == [uid |-> uid, channelId |-> channelId,
                    messages |-> body.items,
                    stored |-> [i \in 0..(Len(body.items) - 1) |-> 0]]
       IN  IF uid \notin {Channel(channelId).validators[i].id : i \in {1, 2}}
           THEN /\ resp' = [status |-> 401, request |-> request]
                /\ UNCHANGED <<log, now, calls>>
           ELSE IF BatchIsValid(body) = "TypeError"
           THEN /\ resp' = [status |-> 500, request |-> request]
                /\ UNCHANGED <<log, now, calls>>
           ELSE IF BatchIsValid(body) = "false"
           THEN /\ resp' = [status |-> 400, request |-> request]
                /\ UNCHANGED <<log, now, calls>>
           ELSE IF body.items = <<>>
           THEN /\ resp' = [status |-> 200, request |-> request]
                /\ UNCHANGED <<log, now, calls>>
           ELSE /\ calls' = Append(calls, call)
                /\ UNCHANGED <<log, now, resp>>
    /\ UNCHANGED <<feeVars, rla, rootVars, worker, listed, convVars>>

\* one insertOne of the k-th call in flight takes effect; Promise.all resolves
\* with the last one and the handler answers { success: true }
InsertCompletesValidating(k, idx) ==
    /\ k \in DOMAIN calls
    /\ idx \in DOMAIN calls[k].stored
    /\ calls[k].stored[idx] = 0
    /\ log' = insertOne(log, toInsertDocValidating(calls[k], idx))
    /\ LET stored == [calls[k].stored EXCEPT ![idx] = Len(log) + 1]
       IN  IF \A i \in DOMAIN stored : stored[i] # 0
           THEN /\ calls' = RemoveAt(calls, k)
                /\ resp' = [status |-> 200,
                            request |-> [uid |-> calls[k].uid,
                                         channelId |-> calls[k].channelId,
                                         body |-> [kind |-> "array",
                                                   items |-> calls[k].messages]]]
           ELSE /\ calls' = [calls EXCEPT ![k].stored = stored]
                /\ UNCHANGED resp
    /\ UNCHANGED <<now, feeVars, rla, rootVars, worker, listed, convVars>>

NextValidating ==
    \/ \E uid \in Uids, id \in ChannelIds, body \in ValidatingBodies :
            /\ Room(MaxLogAll, IF body.kind = "array" THEN Len(body.items) ELSE 0)
            /\ postValidatorMessagesValidating(uid, id, body)
    \/ \E k \in 1..MaxLogAll, idx \in 0..(MaxBatch - 1) : InsertCompletesValidating(k, idx)

SpecValidating == InitStore /\ [][NextValidating]_vars

----------------------------------------------------------------------------
(* Balance conversions: toBNMap, toBNStringMap *)

\* A JavaScript value handed in as `raw`: null, undefined, a string, a number,
\* or an object whose amounts are decimal strings or BNs.  A decimal string is
\* [str |-> the sequence of its digits], a BN is [bn |-> its value].
DigitValues == {0, 1, 9}
DecStrings == UNION {[1..n -> DigitValues] : n \in 1..MaxDigits}
ConvAccounts == {"A", "B"}

\* raw && ... : null, undefined, '' and 0 are falsy
Truthy(v) ==
    CASE v.kind = "null" -> FALSE
      [] v.kind = "undefined" -> FALSE
      [] v.kind = "string" -> v.str # <<>>
      [] v.kind = "number" -> v.num # 0
      [] OTHER -> TRUE

\* typeof(raw): typeof null is 'object'
TypeOf(v) ==
    CASE v.kind = "null" -> "object"
      [] v.kind = "undefined" -> "undefined"
      [] v.kind = "string" -> "string"
      [] v.kind = "number" -> "number"
      [] OTHER -> "object"

\* new BN(bal, 10) of a string of decimal digits
RECURSIVE NewBN(_)
NewBN(bal) ==
    IF bal = <<>> THEN 0
    ELSE NewBN(SubSeq(bal, 1, Len(bal) - 1)) * 10 + bal[Len(bal)]

\* the objects whose amounts are all strings, or all BNs
IsStringMapping(v) ==
    v.kind = "object" /\ \A i \in DOMAIN v.entries : DOMAIN v.entries[i][2] = {"str"}

IsBNMapping(v) ==
    v.kind = "object" /\ \A i \in DOMAIN v.entries : DOMAIN v.entries[i][2] = {"bn"}

\* bal.toString(10) of a non-negative BN: no leading zeros, "0" for zero
RECURSIVE BNtoString(_)
BNtoString(bal) ==
    IF bal < 10 THEN <<bal>> ELSE Append(BNtoString(bal \div 10), bal % 10)

\* Object.entries(raw).forEach(([acc, bal]) => balances[acc] = new BN(bal, 10))
\* the keys of raw are distinct, so balances gets them in the same order
EntriesToBN(entries) ==
    [i \in DOMAIN entries |-> <<entries[i][1], [bn |-> NewBN(entries[i][2].str)]>>]

EntriesToString(entries) ==
    [i \in DOMAIN entries |-> <<entries[i][1], [str |-> BNtoString(entries[i][2].bn)]>>]

\* mutant: assert.ok(typeof(raw) === 'object'); null gets to Object.entries
toBNMap_TypeofOnly(raw) ==
    IF TypeOf(raw) # "object"
    THEN [state |-> "threw", error |-> "AssertionError"]
    ELSE IF raw.kind = "null"
    THEN [state |-> "threw", error |-> "TypeError"]
    ELSE [state |-> "returned",
          value |-> [kind |-> "object",
                     entries |-> EntriesToBN(raw.entries)]]

toBNMap(raw) ==
    IF ~(Truthy(raw) /\ TypeOf(raw) = "object")
    THEN [state |-> "threw", error |-> "AssertionError"]
    ELSE [state |-> "returned",
          value |-> [kind |-> "object",
                     entries |-> EntriesToBN(raw.entries)]]

toBNStringMap(raw) ==
    IF ~(Truthy(raw) /\ TypeOf(raw) = "object")
    THEN [state |-> "threw", error |-> "AssertionError"]
    ELSE [state |-> "returned",
          value |-> [kind |-> "object",
                     entries |-> EntriesToString(raw.entries)]]

NonMappings ==
    {[kind |-> "null"], [kind |-> "undefined"]}
        \cup {[kind |-> "string", str |-> s] : s \in {<<>>} \cup DecStrings}
        \cup {[kind |-> "number", num |-> n] : n \in 0..MaxAmount}

StringMappings ==
    {[kind |-> "object", entries |-> e] :
        e \in ObjectsOver(ConvAccounts, [str : DecStrings], MaxPublishers)}

BNMappings ==
    {[kind |-> "object", entries |-> e] :
        e \in ObjectsOver(ConvAccounts, [bn : 0..MaxAmount], MaxPublishers)}

\* the value the next conversion is applied to: the input, then the result of
\* the conversion before
ConvArg == IF convOut = <<>> THEN convIn ELSE convOut[Len(convOut)].outcome.value

ConvReady ==
    /\ convIn.kind # "none"
    /\ Len(convOut) < 2
    /\ convOut # <<>> => convOut[Len(convOut)].outcome.state = "returned"

CallToBNMap ==
    /\ ConvReady
    /\ ConvArg.kind = "object" => IsStringMapping(ConvArg)
    /\ convOut' = Append(convOut, [fn |-> "toBNMap", outcome |-> toBNMap(ConvArg)])
    /\ UNCHANGED <<convIn, feeVars, storeVars, rla, rootVars, worker, listed>>

CallToBNStringMap ==
    /\ ConvReady
    /\ ConvArg.kind = "object" => IsBNMapping(ConvArg)
    /\ convOut' = Append(convOut,
                    [fn |-> "toBNStringMap", outcome |-> toBNStringMap(ConvArg)])
    /\ UNCHANGED <<convIn, feeVars, storeVars, rla, rootVars, worker, listed>>

InitConv ==
    /\ FeesIdle
    /\ StoreIdle
    /\ RootIdle
    /\ worker = [pc |-> "idle"]
    /\ convIn \in NonMappings \cup StringMappings \cup BNMappings
    /\ convOut = <<>>

\* the conversions, next to the rejection of a NewState whose root mismatches
NextConv ==
    \/ CallToBNMap
    \/ CallToBNStringMap
    \/ \E id \in ChannelIds, newMsg \in LogRejected :
            onError(id, "InvalidRootHash", newMsg)
    \/ PersistResolves
    \/ PersistRejects
    \/ onErrorThen

SpecConv == InitConv /\ [][NextConv]_vars

----------------------------------------------------------------------------
(* C1: for every valid raw balance mapping and channel (deposit > 0, total  *)
(* fee within the deposit) the values getBalancesAfterFeesTree returns sum  *)
(* to the sum of the raw balances and none is negative, whatever the       *)
(* account names are, a raw balance keyed `validator` included.            *)

FeeTotal == feeChannel.validators[1].fee + feeChannel.validators[2].fee

FeeInputValid ==
    /\ feeChannel.depositAmount > 0
    /\ FeeTotal <= feeChannel.depositAmount

C1_SumPreservedAllNames ==
    (feeResult.state # "pending" /\ FeeInputValid) =>
        /\ feeResult.state = "returned"
        /\ SumValues(feeResult.value) = SumValues(feeBalances)
        /\ \A i \in DOMAIN feeResult.value : feeResult.value[i][2] >= 0

----------------------------------------------------------------------------
(* The checkpoint, stated on the log itself *)

\* the log as retrieveLastApproved saw it at its last query
RlaLog == SubSeq(log, 1, rla.len)

IsFollowerApprove(d) ==
    /\ d.channelId = rla.channel.id
    /\ d.from = FOLLOWER
    /\ d.msg.type = "ApproveState"

IsLeaderNewState(d) ==
    /\ d.channelId = rla.channel.id
    /\ d.from = LEADER
    /\ d.msg.type = "NewState"

Envelope(d) == [from |-> d.from, msg |-> d.msg, received |-> d.received]

FollowerApproves == {d \in Range(RlaLog) : IsFollowerApprove(d)}
LeaderNewStates == {d \in Range(RlaLog) : IsLeaderNewState(d)}

\* the follower's ApproveStates with the greatest `received`
LatestApproves ==
    {a \in FollowerApproves : \A b \in FollowerApproves : b.received <= a.received}

Matched(a) == \E n \in LeaderNewStates : n.msg.stateRoot = a.msg.stateRoot

\* the follower's ApproveStates that some leader NewState shares the root of
MatchedApproves == {a \in FollowerApproves : Matched(a)}

RlaSettled == rla.pc = "done" /\ ~rla.grew

(* C2: for any message log, retrieveLastApproved returns null when the log  *)
(* holds no ApproveState of the follower, null when the follower's most     *)
(* recent ApproveState has a root no leader NewState carries, and otherwise *)
(* the pair of the follower's ApproveState with the greatest `received` and *)
(* a leader NewState with the same root.                                    *)
C2_LastApprovedOfLog ==
    RlaSettled =>
        /\ FollowerApproves = {} => rla.result.kind = "null"
        /\ (FollowerApproves # {} /\ \A a \in LatestApproves : ~Matched(a))
                => rla.result.kind = "null"
        /\ (FollowerApproves # {} /\ \A a \in LatestApproves : Matched(a))
                => rla.result.kind = "pair"
        /\ rla.result.kind = "pair" =>
                /\ \E a \in LatestApproves : rla.result.approveState = Envelope(a)
                /\ \E n \in LeaderNewStates :
                        /\ rla.result.newState = Envelope(n)
                        /\ n.msg.stateRoot = rla.result.approveState.msg.stateRoot

\* a pair is returned although the follower approved another root before
C2_Witness ==
    /\ RlaSettled
    /\ rla.result.kind = "pair"
    /\ \E a \in FollowerApproves :
            /\ a.received < rla.result.approveState.received
            /\ a.msg.stateRoot # rla.result.approveState.msg.stateRoot

\* no two ApproveStates of the follower in the log seen share a `received`
DistinctReceived ==
    \A i, j \in DOMAIN RlaLog :
        (i # j /\ IsFollowerApprove(RlaLog[i]) /\ IsFollowerApprove(RlaLog[j]))
            => RlaLog[i].received # RlaLog[j].received

(* C3, as claimed: whenever the log holds a leader NewState and a follower  *)
(* ApproveState with equal roots, retrieveLastApproved returns the latest   *)
(* such pair rather than null (stated for logs in which the follower's      *)
(* ApproveStates have different `received`, so "latest" names one pair).    *)
C3_LatestMatchedPairReturned ==
    (RlaSettled /\ DistinctReceived /\ MatchedApproves # {}) =>
        /\ rla.result.kind = "pair"
        /\ \A a \in MatchedApproves :
                a.received <= rla.result.approveState.received

(* C3, amended: when the follower's most recent ApproveState is matched by  *)
(* a leader NewState, retrieveLastApproved returns that pair, which is the  *)
(* latest mutually attested one; when it is not matched the result is null, *)
(* older matched pairs notwithstanding.                                     *)
C3_LatestApproveDecides ==
    RlaSettled =>
        /\ (LatestApproves # {} /\ LatestApproves \subseteq MatchedApproves) =>
                /\ rla.result.kind = "pair"
                /\ rla.result.newState.msg.stateRoot
                        = rla.result.approveState.msg.stateRoot
                /\ rla.result.newState.from = LEADER
                /\ rla.result.newState.msg.type = "NewState"
                /\ \A a \in MatchedApproves :
                        a.received <= rla.result.approveState.received
        /\ LatestApproves \cap MatchedApproves = {} => rla.result.kind = "null"

\* two matched approvals at different times: the later one is returned
C3_Witness ==
    /\ RlaSettled
    /\ DistinctReceived
    /\ rla.result.kind = "pair"
    /\ \E a \in MatchedApproves : a.received < rla.result.approveState.received

----------------------------------------------------------------------------
(* C4: no two stored messages of a channel have the same `received`, and    *)
(* `received` is strictly increasing in append order within the channel,    *)
(* whatever calls are made and however their inserts interleave.            *)
C4_ReceivedUniqueIncreasing ==
    \A i, j \in DOMAIN log :
        (i < j /\ log[i].channelId = log[j].channelId)
            => log[i].received < log[j].received

(* C5: a postValidatorMessages call with N messages whose inserts all       *)
(* succeed stores exactly N records, the i-th message with `received` equal *)
(* to the start time plus i, so strictly increasing in submission order,    *)
(* in whatever order the inserts complete.                                  *)
CallStoredInOrder(call, col) ==
    LET n == Len(call.messages)
        pos(idx) == IF call.stored[idx] # 0 THEN call.stored[idx] ELSE Len(col)
    IN  /\ \A i, j \in 0..(n - 1) : i # j => pos(i) # pos(j)
        /\ \A i \in 0..(n - 1) :
                /\ pos(i) \in DOMAIN col
                /\ col[pos(i)].channelId = call.channelId
                /\ col[pos(i)].from = call.uid
                /\ col[pos(i)].msg = call.messages[i + 1]
                /\ col[pos(i)].received = call.startTime + i
        /\ \A i, j \in 0..(n - 1) :
                i < j => col[pos(i)].received < col[pos(j)].received

C5_BatchReceivedInSubmissionOrder ==
    [][\A k \in DOMAIN calls :
            (calls' = RemoveAt(calls, k) /\ log' # log)
                => /\ CallStoredInOrder(calls[k], log')
                   /\ Len(log') = Len(log) + 1
                   /\ resp'.status = 200]_vars

\* a batch of two, stored in full, whose second message was inserted first
C5_Witness ==
    /\ calls = <<>>
    /\ resp.status = 200
    /\ now = 0
    /\ Len(log) = 2
    /\ log[1].received = 1
    /\ log[2].received = 0
    /\ log[1].msg # log[2].msg

----------------------------------------------------------------------------
(* C6: the log is append-only: no operation (posting, listing, resolving    *)
(* the last approved pair, persisting a rejection) modifies or removes a    *)
(* stored message; every later log holds every earlier record unchanged.    *)
C6_AppendOnly ==
    [][/\ Len(log') >= Len(log)
       /\ SubSeq(log', 1, Len(log)) = log]_vars

\* every operation has run on a log that holds messages
C6_Witness ==
    /\ Len(log) = 2
    /\ rla.pc = "done"
    /\ rla.len >= 1
    /\ listed.state = "sent"
    /\ Len(listed.validatorMessages) >= 1
    /\ worker.pc = "done"
    /\ worker.appended = 1

----------------------------------------------------------------------------
(* C7: getStateRootHash is order-independent: for a fixed channel, two      *)
(* balance mappings that hold the same address-to-amount pairs have the     *)
(* same state root, whatever the iteration order of their keys.             *)
SamePairs(a, b) == Range(a) = Range(b)

C7_RootOrderIndependent ==
    (rootOut.state = "done" /\ rootIn.claim = "computed"
        /\ SamePairs(rootIn.balances, rootIn.other))
            => rootOut.claimed = rootOut.recomputed

\* the same two pairs, iterated in opposite orders
C7_Witness ==
    /\ rootOut.state = "done"
    /\ rootIn.claim = "computed"
    /\ SamePairs(rootIn.balances, rootIn.other)
    /\ Len(rootIn.balances) = 2
    /\ rootIn.balances # rootIn.other
    /\ rootOut.claimed = rootOut.recomputed

(* C8: isValidRootHash is true exactly when the claimed root equals the     *)
(* root recomputed for the balances given, and with injective leaves and    *)
(* commitment a change of one account's amount makes a true result false.   *)
OneAmountChanged(a, b) ==
    /\ Range(ObjKeys(a)) = Range(ObjKeys(b))
    /\ Cardinality({k \in Range(ObjKeys(a)) : ObjGet(a, k) # ObjGet(b, k)}) = 1

C8_ValidIffSameRoot ==
    rootOut.state = "done" =>
        /\ rootOut.valid <=> (rootOut.claimed = rootOut.recomputed)
        /\ (rootIn.claim = "computed" /\ rootIn.balances = rootIn.other)
                => rootOut.valid
        /\ (rootIn.claim = "computed" /\ OneAmountChanged(rootIn.balances, rootIn.other))
                => ~rootOut.valid

\* the root of {A: 0, B: 1} checked against {A: 1, B: 1}, say
C8_Witness ==
    /\ rootOut.state = "done"
    /\ rootIn.claim = "computed"
    /\ Len(rootIn.balances) = 2
    /\ OneAmountChanged(rootIn.balances, rootIn.other)
    /\ ~rootOut.valid

----------------------------------------------------------------------------
(* C9: on a rejection onError persists a record of type InvalidNewState,    *)
(* whatever type the original message had, with the given reason and every *)
(* other field of the original message unchanged; once the persist has      *)
(* succeeded it resolves to { nothingNew: true }.                           *)
ViaOnError == worker.pc # "idle" /\ worker.outcome \in {"onError", "Rejected"}

IsRejectionOf(m, newMsg, reason) ==
    /\ DOMAIN m = DOMAIN newMsg \cup {"type", "reason"}
    /\ m["type"] = "InvalidNewState"
    /\ m["reason"] = reason
    /\ \A f \in DOMAIN newMsg \ {"type", "reason"} : m[f] = newMsg[f]

C9_RejectionRecord ==
    ViaOnError =>
        /\ Len(worker.sent) = 1
        /\ IsRejectionOf(worker.sent[1], worker.newMsg, worker.reason)
        /\ worker.appended = 1 =>
                /\ Len(log) = 1
                /\ IsRejectionOf(log[1].msg, worker.newMsg, worker.reason)
                /\ log[1].channelId = worker.channelId
        /\ (worker.pc = "done" /\ worker.appended = 1) =>
                worker.result = [kind |-> "resolved", nothingNew |-> TRUE]
        /\ worker.result.kind = "resolved" => worker.appended = 1

\* an ApproveState with a signature and a reason of its own, rejected
C9_Witness ==
    /\ ViaOnError
    /\ worker.pc = "done"
    /\ worker.result = [kind |-> "resolved", nothingNew |-> TRUE]
    /\ DOMAIN worker.newMsg = {"type", "stateRoot", "signature", "reason"}
    /\ worker.newMsg["type"] = "ApproveState"
    /\ Len(log) = 1
    /\ log[1].msg["type"] = "InvalidNewState"
    /\ log[1].msg["signature"] = "sig"

----------------------------------------------------------------------------
(* C10, as claimed: each evaluation of a leader NewState ends with exactly  *)
(* one append to the message store: a Rejected one with one persist of an   *)
(* InvalidNewState and no ApproveState, an Approved one with no             *)
(* InvalidNewState, none with zero appends.                                 *)
SentTypes == {worker.sent[i]["type"] : i \in DOMAIN worker.sent}

C10_ExactlyOneAppend ==
    worker.pc = "done" =>
        /\ worker.appended = 1
        /\ Len(log) = 1
        /\ ViaOnError => Len(worker.sent) = 1 /\ SentTypes = {"InvalidNewState"}
        /\ worker.outcome = "Approved" => "InvalidNewState" \notin SentTypes

(* C10, amended: each evaluation calls persist exactly once, a Rejected one *)
(* with an InvalidNewState and never an ApproveState, an Approved one with  *)
(* an ApproveState and never an InvalidNewState; it ends with exactly one   *)
(* append when that persist succeeds and with none, and a failure for its   *)
(* caller, when the persist fails.                                          *)
C10_OnePersistAtMostOneAppend ==
    worker.pc # "idle" =>
        /\ Len(worker.sent) = 1
        /\ ViaOnError => SentTypes = {"InvalidNewState"}
        /\ worker.outcome = "Approved" => SentTypes = {"ApproveState"}
        /\ worker.appended \in {0, 1}
        /\ Len(log) = worker.appended
        /\ worker.appended = 1 => log[1].msg = worker.sent[1]
        /\ worker.pc = "done" =>
                /\ worker.result.kind = "resolved" <=> worker.appended = 1
                /\ worker.result.kind = "rejected" <=> worker.appended = 0

\* a mismatching root: Rejected, one InvalidNewState stored, nothing else
C10_Witness ==
    /\ worker.pc = "done"
    /\ worker.outcome = "Rejected"
    /\ worker.appended = 1
    /\ Len(log) = 1
    /\ log[1].msg["type"] = "InvalidNewState"
    /\ worker.result.kind = "resolved"

----------------------------------------------------------------------------
(* C11: when persist fails while onError records a rejection, the failure   *)
(* reaches the caller: onError's result is a failure and not                *)
(* { nothingNew: true }, persist is not called again, and the diagnostic is *)
(* written only after a persist that succeeded.                             *)
C11_PersistFailurePropagates ==
    ViaOnError =>
        /\ Len(worker.sent) = 1
        /\ worker.stderr # <<>> =>
                /\ worker.appended = 1
                /\ worker.stderr = <<worker.errMsg>>
                /\ worker.result.kind = "resolved"
        /\ (worker.pc = "done" /\ worker.appended = 0) =>
                /\ worker.result = [kind |-> "rejected"]
                /\ worker.stderr = <<>>
                /\ log = <<>>
        /\ worker.pc \in {"persisting", "persisted"} =>
                worker.result = [kind |-> "pending"]

\* the persist of a rejection failed and onError is over
C11_Witness ==
    /\ ViaOnError
    /\ worker.pc = "done"
    /\ worker.appended = 0
    /\ worker.result = [kind |-> "rejected"]
    /\ worker.sent[1]["type"] = "InvalidNewState"

----------------------------------------------------------------------------
(* C12: getBalancesAfterFeesTree fails hard whenever a value it computes is *)
(* negative: for every channel and raw balances, total fee above the        *)
(* deposit included, it throws or returns a mapping whose entries, the      *)
(* `validator` entry included, are all >= 0.                                *)
C12_ThrowsOrNonNegative ==
    feeResult.state = "returned" =>
        \A i \in DOMAIN feeResult.value : feeResult.value[i][2] >= 0

----------------------------------------------------------------------------
(* C13: getBalancesAfterFeesTree throws when the raw balances are not a     *)
(* valid non-empty mapping; for the empty mapping it returns no result such *)
(* as { validator: 0 }.                                                     *)
C13_EmptyMappingFails ==
    (feeResult.state \in {"threw", "returned"} /\ FeeInputValid
        /\ feeBalances = <<>>) =>
            feeResult.state = "threw"

----------------------------------------------------------------------------
(* C15: getBalancesAfterFeesTree equals the reference computation: with     *)
(* t(b) the truncating division of b * (deposit - totalFee) by deposit,     *)
(* every publisher with raw balance b gets b - t(b), the `validator` entry  *)
(* is the sum of t(b) over the publishers, and the result does not depend   *)
(* on the order the publishers are processed in.                            *)
ReferenceTerm(b) ==
    BNdiv(b * (feeChannel.depositAmount - FeeTotal), feeChannel.depositAmount)

RECURSIVE ReferenceTotal(_)
ReferenceTotal(o) ==
    IF o = <<>> THEN 0 ELSE ReferenceTerm(o[1][2]) + ReferenceTotal(Tail(o))

Reversed(o) == [i \in DOMAIN o |-> o[Len(o) + 1 - i]]

C15_EqualsReference ==
    (feeResult.state = "returned" /\ feeChannel.depositAmount > 0) =>
        /\ \A i \in DOMAIN feeBalances :
                /\ ObjHas(feeResult.value, feeBalances[i][1])
                /\ ObjGet(feeResult.value, feeBalances[i][1])
                        = feeBalances[i][2] - ReferenceTerm(feeBalances[i][2])
        /\ ObjGet(feeResult.value, "validator") = ReferenceTotal(feeBalances)
        /\ Range(ObjKeys(feeResult.value))
                = Range(ObjKeys(feeBalances)) \cup {"validator"}
        /\ Range(getBalancesAfterFeesTree(Reversed(feeBalances), feeChannel).value)
                = Range(feeResult.value)

----------------------------------------------------------------------------
(* C14: a balances input that is not a mapping (null, undefined, a string,  *)
(* a number) makes toBNMap and toBNStringMap fail with an assertion error,  *)
(* and that failure is not a rejection: the conversion persists no          *)
(* InvalidNewState and returns no { nothingNew: true }.                     *)
ConvNonMapping == convIn.kind \in {"null", "undefined", "string", "number"}

ConvCalled == convOut' # convOut

C14_NonMappingAssertionError ==
    /\ [](ConvNonMapping =>
            \A i \in DOMAIN convOut :
                /\ convOut[i].outcome = [state |-> "threw", error |-> "AssertionError"]
                /\ convOut[i].outcome # [kind |-> "resolved", nothingNew |-> TRUE])
    /\ [][(ConvCalled /\ ConvNonMapping) => (log' = log /\ worker' = worker)]_vars

\* toBNStringMap(null) has thrown
C14_Witness ==
    /\ convIn.kind = "null"
    /\ Len(convOut) = 1
    /\ convOut[1].fn = "toBNStringMap"
    /\ convOut[1].outcome.state = "threw"
    /\ log = <<>>

----------------------------------------------------------------------------
(* C16: balance conversion round-trips exactly: toBNStringMap(toBNMap(m))   *)
(* equals m entry for entry for every mapping of valid non-negative decimal *)
(* strings, and toBNMap(toBNStringMap(m)) has the same keys and numerically *)
(* equal amounts for every mapping of non-negative big integers.            *)
C16_RoundTrip ==
    (convIn.kind = "object" /\ Len(convOut) = 2) =>
        /\ convOut[2].outcome.state = "returned"
        /\ convOut[2].outcome.value.entries = convIn.entries

----------------------------------------------------------------------------
(* C17: getValidatorMessages returns only messages of the requested channel *)
(* that match the optional sender and type filters, from the most recent    *)
(* `received` to the oldest, at most min(requested limit, MSGS_FIND_LIMIT)  *)
(* of them, and they are the most recent matching ones.                     *)
ListMatches(d) ==
    /\ d.channelId = listed.query.id
    /\ listed.query.uid # NoParam => d.from = listed.query.uid
    /\ listed.query.type # <<>> => d.msg.type \in Range(listed.query.type[1])

\* min(requested limit, MSGS_FIND_LIMIT), and nothing for a limit below 1
ListBound ==
    IF listed.query.limit = <<>> THEN MSGS_FIND_LIMIT
    ELSE IF listed.query.limit[1] < 0 THEN 0
    ELSE Min(listed.query.limit[1], MSGS_FIND_LIMIT)

C17_ListedMostRecentWithinLimit ==
    listed.state = "sent" =>
        LET pos == listed.positions
            out == listed.validatorMessages
        IN  /\ Len(out) = Len(pos)
            /\ \A i, j \in DOMAIN pos : i # j => pos[i] # pos[j]
            /\ \A i \in DOMAIN pos :
                    /\ pos[i] \in DOMAIN log
                    /\ ListMatches(log[pos[i]])
                    /\ out[i] = VALIDATOR_MSGS_PROJ(log[pos[i]])
            /\ \A i, j \in DOMAIN out : i < j => out[i].received >= out[j].received
            /\ Len(out) <= ListBound
            /\ \A j \in DOMAIN log :
                    (ListMatches(log[j]) /\ j \notin Range(pos)) =>
                        \A i \in DOMAIN pos : log[j].received <= log[pos[i]].received

----------------------------------------------------------------------------
(* C18: every message postValidatorMessages stores has `from` equal to the  *)
(* id of one of the two validators of its channel and `channelId` equal to  *)
(* that channel; a submitter who is not a validator of the channel gets 401 *)
(* and the log is left as it was, with no message of the batch inserted.    *)
ValidatorIds(channelId) == {Channel(channelId).validators[i].id : i \in {1, 2}}

Answered401 == resp'.status = 401 /\ resp.status # 401

C18_OnlyValidatorsStore ==
    /\ [](/\ \A i \in DOMAIN log :
                /\ log[i].channelId \in ChannelIds
                /\ log[i].from \in ValidatorIds(log[i].channelId)
          /\ \A k \in DOMAIN calls :
                calls[k].uid \in ValidatorIds(calls[k].channelId))
    /\ [][Answered401 => (log' = log /\ calls' = calls)]_vars
    /\ [][(calls' # calls /\ Len(calls') > Len(calls)) =>
                calls'[Len(calls')].uid \in ValidatorIds(calls'[Len(calls')].channelId)]_vars

\* a 401 was answered while the log holds what the validators stored
C18_Witness ==
    /\ resp.status = 401
    /\ Len(log) = 2
    /\ \E i \in DOMAIN log : log[i].from = LEADER
    /\ \E i \in DOMAIN log : log[i].from = FOLLOWER

----------------------------------------------------------------------------
(* C19: whenever retrieveLastApproved returns a pair, both messages are in  *)
(* the channel's log, newState is a NewState sent by validators[0],         *)
(* approveState an ApproveState sent by validators[1], and both carry the   *)
(* same stateRoot, also when messages were appended to the log between the  *)
(* ApproveState query and the NewState query.                               *)
InChannelLog(m, channel) ==
    \E i \in DOMAIN log :
        log[i].channelId = channel.id /\ VALIDATOR_MSGS_PROJ(log[i]) = m

C19_ReturnedPairIsAttested ==
    (rla.pc = "done" /\ rla.result.kind = "pair") =>
        LET newState == rla.result.newState
            approveState == rla.result.approveState
        IN  /\ InChannelLog(newState, rla.channel)
            /\ InChannelLog(approveState, rla.channel)
            /\ newState.from = rla.channel.validators[1].id
            /\ newState.msg.type = "NewState"
            /\ approveState.from = rla.channel.validators[2].id
            /\ approveState.msg.type = "ApproveState"
            /\ newState.msg.stateRoot = approveState.msg.stateRoot
            /\ DOMAIN newState = {"from", "msg", "received"}
            /\ DOMAIN approveState = {"from", "msg", "received"}

\* a pair returned although the log grew between the two queries
C19_Witness ==
    /\ rla.pc = "done"
    /\ rla.result.kind = "pair"
    /\ rla.grew
    /\ Len(log) = 3

----------------------------------------------------------------------------
(* C20: in the validating variant of postValidatorMessages acceptance is    *)
(* all-or-nothing: if the body is not an array or one message is not of the *)
(* shape (stateRoot a string of length 64, signature a string, type         *)
(* NewState with an object `balances` or type ApproveState) the response is *)
(* 400 and no message of the batch is stored; an InvalidNewState is never   *)
(* accepted.                                                                *)
ShapeOK(msg) ==
    /\ msg.kind = "object"
    /\ msg.stateRoot = JsonString(STATE_ROOT_LENGTH)
    /\ msg.signature.t = "string"
    /\ \/ (msg.type = "NewState" /\ msg.balances = JsonObject)
       \/ msg.type = "ApproveState"

BodyOK(body) ==
    /\ body.kind = "array"
    /\ \A i \in DOMAIN body.items : ShapeOK(body.items[i])

FromValidator(request) == request.uid \in ValidatorIds(request.channelId)

C20_BatchAllOrNothing ==
    /\ [](/\ \A i \in DOMAIN log :
                ShapeOK(log[i].msg) /\ log[i].msg.type # "InvalidNewState"
          /\ \A k \in DOMAIN calls : BodyOK([kind |-> "array", items |-> calls[k].messages])
          /\ (resp.status # 0 /\ FromValidator(resp.request) /\ ~BodyOK(resp.request.body))
                => resp.status = 400)
    /\ [][(resp' # resp /\ resp'.status = 400) => (log' = log /\ calls' = calls)]_vars

====
